---- MODULE Spec2Model ----
(***************************************************************************)
(* A model of the khatabook ledger application (src/main.py): the cookie   *)
(* auth gate (create_access_token, get_current_user, login), the SQLite    *)
(* ledger (customers, transactions, sqlite_sequence) and the request       *)
(* handlers that read and write it.                                        *)
(*                                                                         *)
(* Abstractions, all of inputs and never of control flow:                  *)
(*   - amounts are integers (REAL amounts without rounding);               *)
(*   - time is counted in days, a timestamp is the day of the insertion    *)
(*     and the epoch sentinel 1970-01-01 is day 0;                         *)
(*   - names, phones and search strings are sequences of characters;       *)
(*   - an HS256 signature is the pair (key, signed payload): it verifies   *)
(*     exactly when both the key and the payload are the ones signed;      *)
(*   - a bcrypt hash is the pair (scheme, password).                       *)
(***************************************************************************)
EXTENDS Integers, Sequences, FiniteSets, TLC

VARIABLES
    customers,      \* table customers: id -> [name, phone]
    transactions,   \* table transactions: id -> [customer_id, amount, type, description, date]
    seq,            \* table sqlite_sequence: [customers |-> n, transactions |-> n]
    pending,        \* the open (uncommitted) write transaction of a delete_customer in flight
    users_db,       \* the in-memory credential dictionary: username -> hash
    now,            \* the wall clock, in days
    issued,         \* the tokens create_access_token has returned so far
    reader,         \* the view or statement request in flight: its position and locals
    resp            \* the last response sent: endpoint, identity, status, location, body

vars == <<customers, transactions, seq, pending, users_db, now, issued, reader, resp>>

ledger == <<customers, transactions, seq>>

(***************************************************************************)
(* Bounds of the model.                                                    *)
(***************************************************************************)
MaxCust == 2        \* customers inserted per database
MaxTrans == 2       \* transactions inserted per database
MaxTime == 2        \* the ledger specification's clock runs InitTime..MaxTime
MaxIssued == 2      \* tokens issued in the auth specification
MaxDrift == 2       \* days the auth clock runs past one token lifetime

(***************************************************************************)
(* Configuration, src/main.py:19-24.                                       *)
(***************************************************************************)
SECRET_KEY == "gr6565e1rg51er5g1e1r"
ALGORITHM == "HS256"
ACCESS_TOKEN_EXPIRE_MINUTES == 10080
DB_NAME == "khatabook.db"

EPOCH == 0          \* "1970-01-01 00:00:00", before every CURRENT_TIMESTAMP
InitTime == EPOCH + 1

None == "None"
Max(a, b) == IF a >= b THEN a ELSE b

(***************************************************************************)
(* Passwords: pwd_context.hash / pwd_context.verify.                       *)
(***************************************************************************)
ADMIN == "admin"
ADMIN_PASSWORD == "edison.ele@123"

get_password_hash(password) == [scheme |-> "bcrypt", of |-> password]

(* every password taken for the right one *)
verify_password_any(plain_password, hashed_password) ==
    hashed_password.scheme = "bcrypt"

verify_password(plain_password, hashed_password) ==
    hashed_password.scheme = "bcrypt" /\ hashed_password.of = plain_password

(***************************************************************************)
(* Tokens.  A JWT is [sub, exp, sig]; sub and exp are optional claims,     *)
(* kept as sequences of length 0 or 1.  jwt.encode signs the payload with  *)
(* the key; jwt.decode recomputes the signature and compares.              *)
(***************************************************************************)
Sign(key, alg, sub, exp) == [key |-> key, alg |-> alg, sub |-> sub, exp |-> exp]

Jwt(sub, exp, sig) == [kind |-> "jwt", sub |-> sub, exp |-> exp, sig |-> sig]

Text(s) == [kind |-> "text", text |-> s]

jwt_encode(sub, exp, key, alg) == Jwt(sub, exp, Sign(key, alg, sub, exp))

MinutesPerDay == 24 * 60

(* timedelta(minutes=ACCESS_TOKEN_EXPIRE_MINUTES), in days *)
ExpireDelta == ACCESS_TOKEN_EXPIRE_MINUTES \div MinutesPerDay

create_access_token(sub, t) ==
    LET expire == t + ExpireDelta
    IN  jwt_encode(<<sub>>, <<expire>>, SECRET_KEY, ALGORITHM)

(* the expiry not verified *)
JwtExpired_unverified(exp, t) == FALSE

(* jose's exp check raises ExpiredSignatureError when exp < now. *)
JwtExpired(exp, t) == exp < t

(* jwt.decode(param, SECRET_KEY, algorithms=[ALGORITHM]): the claims, or a  *)
(* JWTError for a malformed token, a wrong signature or an expired one.    *)
JWTError == [error |-> TRUE]

(* the signature not verified *)
jwt_decode_unverified(param, key, alg, t) ==
    IF Len(param) # 1 \/ param[1].kind # "jwt" THEN JWTError
    ELSE LET tok == param[1]
         IN  IF tok.exp # <<>> /\ JwtExpired(tok.exp[1], t) THEN JWTError
             ELSE [error |-> FALSE, sub |-> tok.sub, exp |-> tok.exp]

jwt_decode(param, key, alg, t) ==
    IF Len(param) # 1 \/ param[1].kind # "jwt" THEN JWTError
    ELSE LET tok == param[1]
         IN  IF tok.sig # Sign(key, alg, tok.sub, tok.exp) THEN JWTError
             ELSE IF tok.exp # <<>> /\ JwtExpired(tok.exp[1], t) THEN JWTError
             ELSE [error |-> FALSE, sub |-> tok.sub, exp |-> tok.exp]

(* A cookie value is the sequence of its space-separated words; the absent  *)
(* cookie and the empty cookie are both <<>>.  token.partition(" ") keeps  *)
(* the first word as the scheme and everything after the first space as    *)
(* the token.                                                              *)
NoCookie == <<>>
Bearer(tok) == <<Text("Bearer"), tok>>

(* the subject not looked up in the dictionary *)
get_current_user_in_unchecked(cookie, db, t) ==
    IF cookie = NoCookie THEN None
    ELSE LET param == Tail(cookie)
             payload == jwt_decode(param, SECRET_KEY, ALGORITHM, t)
         IN  IF payload.error THEN None
             ELSE IF payload.sub = <<>> THEN None
             ELSE payload.sub[1]

get_current_user_in(cookie, db, t) ==
    IF cookie = NoCookie THEN None
    ELSE LET param == Tail(cookie)
             payload == jwt_decode(param, SECRET_KEY, ALGORITHM, t)
         IN  IF payload.error THEN None
             ELSE IF payload.sub = <<>> THEN None
             ELSE IF payload.sub[1] \in DOMAIN db THEN payload.sub[1]
             ELSE None

get_current_user(cookie) == get_current_user_in(cookie, users_db, now)

(***************************************************************************)
(* Request inputs of the ledger specification.                             *)
(***************************************************************************)
OTHER_KEY == "not-the-server-key"

GoodCookie == Bearer(create_access_token(ADMIN, InitTime))
ForgedCookie ==
    Bearer(jwt_encode(<<ADMIN>>, <<InitTime + ExpireDelta>>, OTHER_KEY, ALGORITHM))
GarbageCookie == <<Text("garbage")>>

GAVE == "GAVE"
GOT == "GOT"

(* the ledger specification *)
Cookies == {NoCookie, GoodCookie}
CustIds == 1..MaxCust
TransIds == 1..MaxTrans
Names == {<<"a">>}
Phones == {<<"1">>}
Amounts == {-1, 2}
Types == {GAVE, GOT, "LOAN"}
Descriptions == {""}

(* the gate specification: every endpoint, every kind of cookie *)
GateCookies == {NoCookie, GoodCookie, ForgedCookie, GarbageCookie}
GateAmounts == {2}
GateTypes == {GAVE}
GateQueries == {<<>>}
GateSorts == {"date_desc"}

(* the dashboard specification *)
DashNames == {<<"a">>, <<"b", "a">>}
DashAmounts == {1, 2}
DashTypes == {GAVE, GOT}
Queries == {<<>>, <<"b">>}
Sorts == {"bal_high", "bal_low", "date_desc", "date_asc", "name"}

(***************************************************************************)
(* Responses.                                                              *)
(***************************************************************************)
NoBody == [kind |-> "none"]
Loc(path, id) == [path |-> path, id |-> id]
NoLoc == Loc("", 0)

Response(endpoint, user, status, location, arg, body) ==
    [endpoint |-> endpoint, user |-> user, status |-> status,
     location |-> location, arg |-> arg, body |-> body]

(* if not get_current_user(request): return RedirectResponse("/login") *)
LoginRedirect(endpoint, arg) ==
    Response(endpoint, None, 307, Loc("/login", 0), arg, NoBody)

(* sqlite3.OperationalError: database is locked *)
Locked == pending.pc \in {"transactions_deleted", "customers_deleted"}
LockedError(endpoint, user, arg) ==
    Response(endpoint, user, 500, NoLoc, arg, NoBody)

(* no view or statement request in flight *)
NoRead ==
    [pc |-> "idle", endpoint |-> "", user |-> None, customer_id |-> 0,
     customer |-> <<>>, transactions |-> <<>>, gave |-> 0, called_on |-> <<>>]

Idle ==
    [pc |-> "idle", user |-> None, customer_id |-> 0,
     del_transactions |-> {}, del_customers |-> {}]

(***************************************************************************)
(* The ledger: SQL over the two tables.                                    *)
(***************************************************************************)
Restrict(f, S) == [i \in S |-> f[i]]

(* SELECT ... FROM transactions WHERE customer_id = ? AND type = ?, rowids *)
RowsOfType(customer_id, type) ==
    {t \in DOMAIN transactions :
        transactions[t].customer_id = customer_id /\ transactions[t].type = type}

(* SELECT ... FROM transactions WHERE customer_id = ?, rowids *)
RowsOf(customer_id) ==
    {t \in DOMAIN transactions : transactions[t].customer_id = customer_id}

(* SUM(amount) over a set of rows, scanned by ascending rowid: NULL (<<>>) *)
(* when there is no row.                                                   *)
RECURSIVE SumAscending(_)
SumAscending(rows) ==
    IF rows = {} THEN 0
    ELSE LET t == CHOOSE r \in rows : \A o \in rows : r <= o
         IN  transactions[t].amount + SumAscending(rows \ {t})

SqlSum(rows) == IF rows = {} THEN <<>> ELSE <<SumAscending(rows)>>

(* Python's  x or 0.0  on a fetched value: None and 0.0 are both falsy *)
OrZero(v) == IF v = <<>> THEN 0 ELSE IF v[1] = 0 THEN 0 ELSE v[1]

(* the second query without its customer_id filter *)
get_customer_balance_unfiltered(customer_id) ==
    LET gave == OrZero(SqlSum(RowsOfType(customer_id, GAVE)))
        got == OrZero(SqlSum({t \in DOMAIN transactions : transactions[t].type = GOT}))
    IN  gave - got

get_customer_balance(customer_id) ==
    LET gave == OrZero(SqlSum(RowsOfType(customer_id, GAVE)))
        got == OrZero(SqlSum(RowsOfType(customer_id, GOT)))
    IN  gave - got

(***************************************************************************)
(* Write handlers.  Each runs one statement and commits, so its write is   *)
(* one atomic step; while delete_customer holds the write lock the         *)
(* statement fails with "database is locked".                              *)
(***************************************************************************)

(* POST /add_customer *)
add_customer(cookie, name, phone) ==
    LET user == get_current_user(cookie)
        id == seq.customers + 1
    IN  /\ user # None => (Locked \/ seq.customers < MaxCust)
        /\ IF user = None
           THEN /\ resp' = LoginRedirect("/add_customer", 0)
                /\ UNCHANGED ledger
           ELSE IF Locked
           THEN /\ resp' = LockedError("/add_customer", user, 0)
                /\ UNCHANGED ledger
           ELSE /\ customers' = customers @@ (id :> [name |-> name, phone |-> phone])
                /\ seq' = [seq EXCEPT !.customers = id]
                /\ resp' = Response("/add_customer", user, 303, Loc("/", 0), 0, NoBody)
                /\ UNCHANGED transactions
        /\ UNCHANGED <<pending, users_db, now, issued, reader>>

(* POST /add_transaction *)
add_transaction(cookie, customer_id, amount, type, description) ==
    LET user == get_current_user(cookie)
        id == seq.transactions + 1
    IN  /\ user # None => (Locked \/ seq.transactions < MaxTrans)
        /\ IF user = None
           THEN /\ resp' = LoginRedirect("/add_transaction", customer_id)
                /\ UNCHANGED ledger
           ELSE IF Locked
           THEN /\ resp' = LockedError("/add_transaction", user, customer_id)
                /\ UNCHANGED ledger
           ELSE /\ transactions' = transactions @@
                       (id :> [customer_id |-> customer_id, amount |-> amount,
                               type |-> type, description |-> description,
                               date |-> now])
                /\ seq' = [seq EXCEPT !.transactions = id]
                /\ resp' = Response("/add_transaction", user, 303,
                                    Loc("/customer", customer_id), customer_id, NoBody)
                /\ UNCHANGED customers
        /\ UNCHANGED <<pending, users_db, now, issued, reader>>

(* the UPDATE without its WHERE clause *)
UpdateTransaction_everywhere(transaction_id, amount, description, type) ==
    [t \in DOMAIN transactions |->
        [transactions[t] EXCEPT !.amount = amount,
                                !.description = description,
                                !.type = type]]

(* UPDATE transactions SET amount = ?, description = ?, type = ? WHERE id = ? *)
UpdateTransaction(transaction_id, amount, description, type) ==
    [t \in DOMAIN transactions |->
        IF t = transaction_id
        THEN [transactions[t] EXCEPT !.amount = amount,
                                     !.description = description,
                                     !.type = type]
        ELSE transactions[t]]

(* POST /edit_transaction *)
edit_transaction(cookie, transaction_id, customer_id, amount, description, type) ==
    LET user == get_current_user(cookie)
    IN  /\ IF user = None
           THEN /\ resp' = LoginRedirect("/edit_transaction", transaction_id)
                /\ UNCHANGED ledger
           ELSE IF Locked
           THEN /\ resp' = LockedError("/edit_transaction", user, transaction_id)
                /\ UNCHANGED ledger
           ELSE /\ transactions' = UpdateTransaction(transaction_id, amount, description, type)
                /\ resp' = Response("/edit_transaction", user, 303,
                                    Loc("/customer", customer_id), transaction_id, NoBody)
                /\ UNCHANGED <<customers, seq>>
        /\ UNCHANGED <<pending, users_db, now, issued, reader>>

(* the DELETE on customer_id instead of id *)
delete_transaction_of_owner(cookie, transaction_id) ==
    LET user == get_current_user(cookie)
    IN  /\ IF user = None
           THEN /\ resp' = LoginRedirect("/delete_transaction", transaction_id)
                /\ UNCHANGED ledger
           ELSE IF transaction_id \in DOMAIN transactions
           THEN /\ transactions' =
                       Restrict(transactions,
                                {t \in DOMAIN transactions :
                                    transactions[t].customer_id #
                                        transactions[transaction_id].customer_id})
                /\ resp' = Response("/delete_transaction", user, 303,
                               Loc("/customer", transactions[transaction_id].customer_id),
                               transaction_id, NoBody)
                /\ UNCHANGED <<customers, seq>>
           ELSE /\ resp' = Response("/delete_transaction", user, 303, Loc("/", 0),
                                    transaction_id, NoBody)
                /\ UNCHANGED ledger
        /\ UNCHANGED <<pending, users_db, now, issued, reader>>

(* POST /delete_transaction/{transaction_id} *)
delete_transaction(cookie, transaction_id) ==
    LET user == get_current_user(cookie)
    IN  /\ IF user = None
           THEN /\ resp' = LoginRedirect("/delete_transaction", transaction_id)
                /\ UNCHANGED ledger
           ELSE IF transaction_id \in DOMAIN transactions
           THEN IF Locked
                THEN /\ resp' = LockedError("/delete_transaction", user, transaction_id)
                     /\ UNCHANGED ledger
                ELSE /\ transactions' =
                            Restrict(transactions, DOMAIN transactions \ {transaction_id})
                     /\ resp' = Response("/delete_transaction", user, 303,
                                    Loc("/customer", transactions[transaction_id].customer_id),
                                    transaction_id, NoBody)
                     /\ UNCHANGED <<customers, seq>>
           ELSE /\ resp' = Response("/delete_transaction", user, 303, Loc("/", 0),
                                    transaction_id, NoBody)
                /\ UNCHANGED ledger
        /\ UNCHANGED <<pending, users_db, now, issued, reader>>

(* POST /edit_customer *)
edit_customer(cookie, customer_id, name, phone) ==
    LET user == get_current_user(cookie)
    IN  /\ IF user = None
           THEN /\ resp' = LoginRedirect("/edit_customer", customer_id)
                /\ UNCHANGED ledger
           ELSE IF Locked
           THEN /\ resp' = LockedError("/edit_customer", user, customer_id)
                /\ UNCHANGED ledger
           ELSE /\ customers' = [c \in DOMAIN customers |->
                                    IF c = customer_id
                                    THEN [name |-> name, phone |-> phone]
                                    ELSE customers[c]]
                /\ resp' = Response("/edit_customer", user, 303,
                                    Loc("/customer", customer_id), customer_id, NoBody)
                /\ UNCHANGED <<transactions, seq>>
        /\ UNCHANGED <<pending, users_db, now, issued, reader>>

(***************************************************************************)
(* POST /delete_customer/{customer_id}: two DELETE statements and a commit *)
(* on one connection.  sqlite3 opens a transaction before the first DELETE *)
(* and the rows stay in the file until the commit; the handler suspends at *)
(* each await, so other requests run in between.                           *)
(***************************************************************************)

(* no response yet: the handler is suspended at an await *)
InFlight(user, customer_id) ==
    Response("/delete_customer", user, 0, NoLoc, customer_id, NoBody)

(* the cascade forgotten: no transaction is deleted *)
delete_customer_transactions_skipped(user, customer_id) ==
    /\ pending' = [pc |-> "transactions_deleted", user |-> user,
                   customer_id |-> customer_id,
                   del_transactions |-> {}, del_customers |-> {}]
    /\ UNCHANGED ledger

(* the first DELETE committed on its own, as on an autocommit connection *)
delete_customer_transactions_autocommit(user, customer_id) ==
    /\ pending' = [pc |-> "transactions_deleted", user |-> user,
                   customer_id |-> customer_id,
                   del_transactions |-> {}, del_customers |-> {}]
    /\ transactions' = Restrict(transactions, DOMAIN transactions \ RowsOf(customer_id))
    /\ UNCHANGED <<customers, seq>>

(* DELETE FROM transactions WHERE customer_id = ?, inside the open transaction *)
delete_customer_transactions(user, customer_id) ==
    /\ pending' = [pc |-> "transactions_deleted", user |-> user,
                   customer_id |-> customer_id,
                   del_transactions |-> RowsOf(customer_id), del_customers |-> {}]
    /\ UNCHANGED ledger

(* the auth check and the first statement *)
delete_customer(cookie, customer_id) ==
    LET user == get_current_user(cookie)
    IN  /\ user # None => pending.pc # "committed"
        /\ IF user = None
           THEN /\ resp' = LoginRedirect("/delete_customer", customer_id)
                /\ UNCHANGED <<ledger, pending>>
           ELSE IF Locked
           THEN /\ resp' = LockedError("/delete_customer", user, customer_id)
                /\ UNCHANGED <<ledger, pending>>
           ELSE /\ delete_customer_transactions(user, customer_id)
                /\ resp' = InFlight(user, customer_id)
        /\ UNCHANGED <<users_db, now, issued, reader>>

(* DELETE FROM customers WHERE id = ?, inside the open transaction *)
delete_customer_customers ==
    /\ pending.pc = "transactions_deleted"
    /\ pending' = [pending EXCEPT !.pc = "customers_deleted",
                                  !.del_customers = {pending.customer_id} \cap DOMAIN customers]
    /\ resp' = InFlight(pending.user, pending.customer_id)
    /\ UNCHANGED <<ledger, users_db, now, issued, reader>>

(* await db.commit(): both deletes reach the file together, the lock is freed *)
delete_customer_commit ==
    /\ pending.pc = "customers_deleted"
    /\ customers' = Restrict(customers, DOMAIN customers \ pending.del_customers)
    /\ transactions' = Restrict(transactions, DOMAIN transactions \ pending.del_transactions)
    /\ pending' = [pending EXCEPT !.pc = "committed"]
    /\ resp' = InFlight(pending.user, pending.customer_id)
    /\ UNCHANGED <<seq, users_db, now, issued, reader>>

(* the connection closes and the handler returns the redirect *)
delete_customer_return ==
    /\ pending.pc = "committed"
    /\ pending' = Idle
    /\ resp' = Response("/delete_customer", pending.user, 303, Loc("/", 0),
                        pending.customer_id, NoBody)
    /\ UNCHANGED <<ledger, users_db, now, issued, reader>>

(* An exception or a crash before the commit: the connection closes without *)
(* committing and SQLite rolls the open transaction back.                  *)
delete_customer_fail ==
    /\ Locked
    /\ pending' = Idle
    /\ resp' = Response("/delete_customer", pending.user, 500, NoLoc,
                        pending.customer_id, NoBody)
    /\ UNCHANGED <<ledger, users_db, now, issued, reader>>

(***************************************************************************)
(* POST /restore_db: the uploaded file replaces the database file when its *)
(* name ends in ".db"; the content is not looked at.  An upload is a file  *)
(* name and a database image.  The overwrite of a file with a write        *)
(* transaction open on it is left out.                                     *)
(***************************************************************************)
EmptyImage ==
    [customers |-> <<>>, transactions |-> <<>>,
     seq |-> [customers |-> 0, transactions |-> 0]]

OldImage ==
    [customers |-> (1 :> [name |-> <<"a">>, phone |-> <<"1">>]),
     transactions |-> (1 :> [customer_id |-> 1, amount |-> 2, type |-> GAVE,
                             description |-> "", date |-> InitTime]),
     seq |-> [customers |-> 1, transactions |-> 1]]

Uploads ==
    {[filename |-> <<"backup", ".db">>, image |-> EmptyImage],
     [filename |-> <<"backup", ".db">>, image |-> OldImage],
     [filename |-> <<"notes", ".txt">>, image |-> OldImage]}

(* file.filename.endswith(".db") *)
EndsWithDb(filename) == filename[Len(filename)] = ".db"

(* the file overwritten before the auth check *)
restore_db_unchecked(cookie, file) ==
    LET user == get_current_user(cookie)
    IN  /\ ~Locked
        /\ customers' = file.image.customers
        /\ transactions' = file.image.transactions
        /\ seq' = file.image.seq
        /\ resp' = IF user = None THEN LoginRedirect("/restore_db", 0)
                   ELSE Response("/restore_db", user, 303, Loc("/", 0), 0, NoBody)
        /\ UNCHANGED <<pending, users_db, now, issued, reader>>

restore_db(cookie, file) ==
    LET user == get_current_user(cookie)
    IN  /\ user # None /\ EndsWithDb(file.filename) => ~Locked
        /\ IF user = None
           THEN /\ resp' = LoginRedirect("/restore_db", 0)
                /\ UNCHANGED ledger
           ELSE IF ~EndsWithDb(file.filename)
           THEN /\ resp' = Response("/restore_db", user, 303, Loc("/", 0), 0, NoBody)
                /\ UNCHANGED ledger
           ELSE /\ customers' = file.image.customers
                /\ transactions' = file.image.transactions
                /\ seq' = file.image.seq
                /\ resp' = Response("/restore_db", user, 303, Loc("/", 0), 0, NoBody)
        /\ UNCHANGED <<pending, users_db, now, issued, reader>>

(***************************************************************************)
(* Read handlers.                                                          *)
(***************************************************************************)

(* text LIKE '%q%' for a q without wildcards *)
Like(q, text) ==
    \E i \in 1..(Len(text) - Len(q) + 1) : SubSeq(text, i, i + Len(q) - 1) = q

(* the rowids of a SELECT, in scan order *)
RECURSIVE Ascending(_)
Ascending(ids) ==
    IF ids = {} THEN <<>>
    ELSE LET first == CHOOSE i \in ids : \A o \in ids : i <= o
         IN  <<first>> \o Ascending(ids \ {first})

(* list.sort(key=..., reverse=...): a stable sort; reverse keeps the order *)
(* of equal keys.                                                          *)
SortBy(list, key, reverse) ==
    LET n == Len(list)
        Before(j, i) ==
            \/ IF reverse THEN list[j][key] > list[i][key] ELSE list[j][key] < list[i][key]
            \/ list[j][key] = list[i][key] /\ j < i
        Pos(i) == 1 + Cardinality({j \in 1..n : Before(j, i)})
    IN  [p \in 1..n |-> list[CHOOSE i \in 1..n : Pos(i) = p]]

(* SELECT date FROM transactions WHERE customer_id = ? ORDER BY date DESC LIMIT 1 *)
LastActivity(customer_id) ==
    IF RowsOf(customer_id) = {} THEN EPOCH
    ELSE LET t == CHOOSE r \in RowsOf(customer_id) :
                     \A o \in RowsOf(customer_id) : transactions[r].date >= transactions[o].date
         IN  transactions[t].date

(* SELECT * FROM customers [WHERE name LIKE ? OR phone LIKE ?] *)
SelectCustomers(q) ==
    IF q # <<>>
    THEN {c \in DOMAIN customers : Like(q, customers[c].name) \/ Like(q, customers[c].phone)}
    ELSE DOMAIN customers

(* the loop of dashboard: one dict per selected customer *)
CustomerList(q) ==
    LET ids == Ascending(SelectCustomers(q))
    IN  [k \in 1..Len(ids) |->
            [id |-> ids[k], name |-> customers[ids[k]].name,
             phone |-> customers[ids[k]].phone,
             balance |-> get_customer_balance(ids[k]),
             last_activity |-> LastActivity(ids[k])]]

(* if balance > 0: total_gave += balance, over the loop *)
RECURSIVE TotalGave(_)
TotalGave(list) ==
    IF list = <<>> THEN 0
    ELSE (IF Head(list).balance > 0 THEN Head(list).balance ELSE 0) + TotalGave(Tail(list))

(* reverse=True forgotten *)
SortCustomers_unreversed(list, sort) ==
    IF sort = "bal_high" THEN SortBy(list, "balance", FALSE)
    ELSE IF sort = "bal_low" THEN SortBy(list, "balance", FALSE)
    ELSE IF sort = "date_desc" THEN SortBy(list, "last_activity", FALSE)
    ELSE IF sort = "date_asc" THEN SortBy(list, "last_activity", FALSE)
    ELSE list

SortCustomers(list, sort) ==
    IF sort = "bal_high" THEN SortBy(list, "balance", TRUE)
    ELSE IF sort = "bal_low" THEN SortBy(list, "balance", FALSE)
    ELSE IF sort = "date_desc" THEN SortBy(list, "last_activity", TRUE)
    ELSE IF sort = "date_asc" THEN SortBy(list, "last_activity", FALSE)
    ELSE list

(* GET / *)
dashboard(cookie, q, sort) ==
    LET user == get_current_user(cookie)
        customer_list == CustomerList(q)
    IN  /\ IF user = None
           THEN resp' = LoginRedirect("/", 0)
           ELSE resp' = Response("/", user, 200, NoLoc, 0,
                            [kind |-> "index",
                             customers |-> SortCustomers(customer_list, sort),
                             total_to_collect |-> TotalGave(customer_list),
                             q |-> q, sort |-> sort])
        /\ UNCHANGED <<ledger, pending, users_db, now, issued, reader>>

(* the rows ordered by date ASC *)
TransactionsByDateAsc(customer_id) ==
    LET ids == Ascending(RowsOf(customer_id))
        rows == [k \in 1..Len(ids) |->
                    [id |-> ids[k], customer_id |-> transactions[ids[k]].customer_id,
                     amount |-> transactions[ids[k]].amount,
                     type |-> transactions[ids[k]].type,
                     description |-> transactions[ids[k]].description,
                     date |-> transactions[ids[k]].date]]
    IN  SortBy(rows, "date", FALSE)

(* SELECT * FROM transactions WHERE customer_id = ? ORDER BY date DESC *)
TransactionsByDateDesc(customer_id) ==
    LET ids == Ascending(RowsOf(customer_id))
        rows == [k \in 1..Len(ids) |->
                    [id |-> ids[k], customer_id |-> transactions[ids[k]].customer_id,
                     amount |-> transactions[ids[k]].amount,
                     type |-> transactions[ids[k]].type,
                     description |-> transactions[ids[k]].description,
                     date |-> transactions[ids[k]].date]]
    IN  SortBy(rows, "date", TRUE)

(* GET /customer/{customer_id} *)
view_customer(cookie, customer_id) ==
    LET user == get_current_user(cookie)
    IN  /\ IF user = None
           THEN resp' = LoginRedirect("/customer", customer_id)
           ELSE IF customer_id \notin DOMAIN customers
           THEN resp' = Response("/customer", user, 404, NoLoc, customer_id, NoBody)
           ELSE resp' = Response("/customer", user, 200, NoLoc, customer_id,
                            [kind |-> "customer",
                             customer |-> customers[customer_id],
                             transactions |-> TransactionsByDateDesc(customer_id),
                             balance |-> get_customer_balance(customer_id)])
        /\ UNCHANGED <<ledger, pending, users_db, now, issued, reader>>

(* the rows csv.writer writes after the header *)
StatementRows(rows) ==
    [k \in 1..Len(rows) |->
        [date |-> rows[k].date, description |-> rows[k].description,
         type |-> rows[k].type, amount |-> rows[k].amount,
         context |-> IF rows[k].type = GAVE THEN "You Gave" ELSE "You Received"]]

(* GET /customer/{customer_id}/download *)
download_statement(cookie, customer_id) ==
    LET user == get_current_user(cookie)
    IN  /\ IF user = None
           THEN resp' = LoginRedirect("/customer/download", customer_id)
           ELSE IF customer_id \notin DOMAIN customers
           THEN resp' = Response("/customer/download", user, 404, NoLoc, customer_id, NoBody)
           ELSE resp' = Response("/customer/download", user, 200, NoLoc, customer_id,
                            [kind |-> "csv",
                             filename |-> customers[customer_id].name,
                             rows |-> StatementRows(TransactionsByDateDesc(customer_id)),
                             net_balance |-> get_customer_balance(customer_id)])
        /\ UNCHANGED <<ledger, pending, users_db, now, issued, reader>>

(* GET /download_db: the database file as it is on disk (init_db has made  *)
(* it, so os.path.exists(DB_NAME) holds)                                   *)
download_db(cookie) ==
    LET user == get_current_user(cookie)
    IN  /\ IF user = None
           THEN resp' = LoginRedirect("/download_db", 0)
           ELSE resp' = Response("/download_db", user, 200, NoLoc, 0,
                            [kind |-> "db",
                             image |-> [customers |-> customers,
                                        transactions |-> transactions, seq |-> seq]])
        /\ UNCHANGED <<ledger, pending, users_db, now, issued, reader>>

(* a day passes *)
Tick ==
    /\ now < MaxTime
    /\ now' = now + 1
    /\ UNCHANGED <<ledger, pending, users_db, issued, reader, resp>>

(***************************************************************************)
(* The ledger specification: the process is up (startup_event has run on   *)
(* an empty database file) and serves the requests of a logged-in session. *)
(***************************************************************************)
NoResponse == Response("", None, 0, NoLoc, 0, NoBody)

Init ==
    /\ customers = <<>>
    /\ transactions = <<>>
    /\ seq = [customers |-> 0, transactions |-> 0]
    /\ pending = Idle
    /\ users_db = (ADMIN :> get_password_hash(ADMIN_PASSWORD))
    /\ now = InitTime
    /\ issued = {}
    /\ reader = NoRead
    /\ resp = NoResponse

Next ==
    \/ \E name \in Names, phone \in Phones :
            add_customer(GoodCookie, name, phone)
    \/ \E c \in CustIds, a \in Amounts, ty \in Types, d \in Descriptions :
            add_transaction(GoodCookie, c, a, ty, d)
    \/ \E t \in TransIds, c \in CustIds, a \in Amounts,
          d \in Descriptions, ty \in Types :
            edit_transaction(GoodCookie, t, c, a, d, ty)
    \/ \E t \in TransIds : delete_transaction(GoodCookie, t)
    \/ \E c \in CustIds, name \in Names, phone \in Phones :
            edit_customer(GoodCookie, c, name, phone)
    \/ \E c \in CustIds : delete_customer(GoodCookie, c)
    \/ delete_customer_customers
    \/ delete_customer_commit
    \/ delete_customer_return
    \/ delete_customer_fail

Spec == Init /\ [][Next]_vars

(***************************************************************************)
(* The gate specification: every protected endpoint, asked with and        *)
(* without a valid session.                                                *)
(***************************************************************************)
NextGate ==
    \/ \E cookie \in GateCookies, name \in Names, phone \in Phones :
            add_customer(cookie, name, phone)
    \/ \E cookie \in GateCookies, c \in CustIds, a \in GateAmounts, ty \in GateTypes,
          d \in Descriptions :
            add_transaction(cookie, c, a, ty, d)
    \/ \E cookie \in GateCookies, t \in TransIds, c \in CustIds, a \in GateAmounts,
          d \in Descriptions, ty \in GateTypes :
            edit_transaction(cookie, t, c, a, d, ty)
    \/ \E cookie \in GateCookies, t \in TransIds : delete_transaction(cookie, t)
    \/ \E cookie \in GateCookies, c \in CustIds, name \in Names, phone \in Phones :
            edit_customer(cookie, c, name, phone)
    \/ \E cookie \in GateCookies, c \in CustIds : delete_customer(cookie, c)
    \/ delete_customer_customers
    \/ delete_customer_commit
    \/ delete_customer_return
    \/ delete_customer_fail
    \/ \E cookie \in GateCookies, file \in Uploads : restore_db(cookie, file)
    \/ \E cookie \in GateCookies, q \in GateQueries, sort \in GateSorts :
            dashboard(cookie, q, sort)
    \/ \E cookie \in GateCookies, c \in CustIds : view_customer(cookie, c)
    \/ \E cookie \in GateCookies, c \in CustIds : download_statement(cookie, c)
    \/ \E cookie \in GateCookies : download_db(cookie)

SpecGate == Init /\ [][NextGate]_vars

(***************************************************************************)
(* The dashboard specification: a ledger built by adds, edits and deletes  *)
(* over time, and the dashboard asked with every filter and sort.          *)
(***************************************************************************)
NextDash ==
    \/ \E name \in DashNames, phone \in Phones : add_customer(GoodCookie, name, phone)
    \/ \E c \in CustIds, a \in DashAmounts, ty \in DashTypes, d \in Descriptions :
            add_transaction(GoodCookie, c, a, ty, d)
    \/ \E t \in TransIds : delete_transaction(GoodCookie, t)
    \/ \E cookie \in Cookies, q \in Queries, sort \in Sorts : dashboard(cookie, q, sort)
    \/ Tick

SpecDash == Init /\ [][NextDash]_vars

(***************************************************************************)
(* The auth specification: the process from its import on, logins, the     *)
(* clock, restarts, and the auth gate applied to the cookies a client can  *)
(* send: none, malformed ones, the tokens issued, and tokens built from    *)
(* them without the server's key.                                          *)
(***************************************************************************)
Usernames == {ADMIN, "mallory"}
Passwords == {ADMIN_PASSWORD, "wrong"}

AuthMaxTime == InitTime + ExpireDelta + MaxDrift

IssuedTokens == {i.token : i \in issued}

(* what a client can make of a token it holds without the server's key *)
Tampered(tok) ==
    {Jwt(<<"mallory">>, tok.exp, tok.sig),
     Jwt(tok.sub, <<AuthMaxTime + ExpireDelta>>, tok.sig),
     Jwt(tok.sub, <<>>, tok.sig),
     Jwt(<<>>, tok.exp, tok.sig),
     jwt_encode(tok.sub, tok.exp, OTHER_KEY, ALGORITHM),
     jwt_encode(tok.sub, tok.exp, "", "none")}

RequestCookies ==
    {NoCookie, GarbageCookie, <<Text("Bearer"), Text("garbage")>>, ForgedCookie}
    \cup {Bearer(tok) : tok \in IssuedTokens}
    \cup {<<tok>> : tok \in IssuedTokens}
    \cup {<<Text("Token"), tok>> : tok \in IssuedTokens}
    \cup {<<Text("Bearer"), tok, Text("x")>> : tok \in IssuedTokens}
    \cup UNION {{Bearer(f) : f \in Tampered(tok)} : tok \in IssuedTokens}

(* startup_event: users_db["admin"] = get_password_hash(...); init_db only *)
(* creates the tables that are missing.                                    *)
startup_event ==
    /\ users_db = <<>>
    /\ users_db' = users_db @@ (ADMIN :> get_password_hash(ADMIN_PASSWORD))
    /\ UNCHANGED <<ledger, pending, now, issued, reader, resp>>

(* The process ends and the module is imported again: users_db = {} and    *)
(* SECRET_KEY is the same literal; the database file and the cookies the   *)
(* clients hold outlive the process.  Until startup_event has run (it runs *)
(* only when the server delivers lifespan events) the handlers find        *)
(* users_db empty.                                                         *)
Restart ==
    /\ users_db # <<>>
    /\ users_db' = <<>>
    /\ resp' = NoResponse
    /\ UNCHANGED <<ledger, pending, now, issued, reader>>

LoginPage(error) ==
    Response("/login", None, 200, NoLoc, 0,
             [kind |-> "login", error |-> error, set_cookie |-> NoCookie])

(* POST /login *)
login(username, password) ==
    LET access_token == create_access_token(username, now)
        known == username \in DOMAIN users_db
        ok == known /\ verify_password(password, users_db[username])
    IN  /\ ok => \/ [token |-> access_token, at |-> now] \in issued
                 \/ Cardinality(issued) < MaxIssued
        /\ IF ~known
           THEN /\ resp' = LoginPage("User not found")
                /\ UNCHANGED issued
           ELSE IF ~verify_password(password, users_db[username])
           THEN /\ resp' = LoginPage("Invalid password")
                /\ UNCHANGED issued
           ELSE /\ issued' = issued \cup {[token |-> access_token, at |-> now]}
                /\ resp' = Response("/login", username, 302, Loc("/", 0), 0,
                                [kind |-> "login", error |-> "",
                                 set_cookie |-> Bearer(access_token)])
        /\ UNCHANGED <<ledger, pending, users_db, now, reader>>

(* get_current_user(request) as every protected handler calls it; the      *)
(* response records the cookie sent, the time and the identity returned.   *)
authenticate(cookie) ==
    /\ resp' = Response("get_current_user", get_current_user(cookie), 0, NoLoc, 0,
                        [kind |-> "auth", cookie |-> cookie, at |-> now])
    /\ UNCHANGED <<ledger, pending, users_db, now, issued, reader>>

(* a day passes *)
AuthTick ==
    /\ now < AuthMaxTime
    /\ now' = now + 1
    /\ UNCHANGED <<ledger, pending, users_db, issued, reader, resp>>

InitAuth ==
    /\ customers = <<>>
    /\ transactions = <<>>
    /\ seq = [customers |-> 0, transactions |-> 0]
    /\ pending = Idle
    /\ users_db = <<>>
    /\ now = InitTime
    /\ issued = {}
    /\ reader = NoRead
    /\ resp = NoResponse

NextAuth ==
    \/ startup_event
    \/ Restart
    \/ \E username \in Usernames, password \in Passwords : login(username, password)
    \/ \E cookie \in RequestCookies : authenticate(cookie)
    \/ AuthTick

SpecAuth == InitAuth /\ [][NextAuth]_vars

(***************************************************************************)
(* Claims about the ledger.                                                *)
(***************************************************************************)
AllCustIds == 0..(MaxCust + 1)

RECURSIVE SumDescending(_)
SumDescending(rows) ==
    IF rows = {} THEN 0
    ELSE LET t == CHOOSE r \in rows : \A o \in rows : r >= o
         IN  SumDescending(rows \ {t}) + transactions[t].amount

KindOf(c, kind) ==
    {t \in DOMAIN transactions :
        transactions[t].customer_id = c /\ transactions[t].type = kind}

(* C1: in every state reached by add, edit and delete requests, the balance *)
(* of every customer id is the sum of the amounts of its GAVE transactions *)
(* minus the sum of the amounts of its GOT transactions, whatever the      *)
(* order of summation, a kind without transactions counting as zero.       *)
C1_BalanceIsGaveMinusGot ==
    \A c \in AllCustIds :
        get_customer_balance(c) = SumDescending(KindOf(c, GAVE)) - SumDescending(KindOf(c, GOT))

(* a customer with transactions of both kinds, and a customer with none *)
C1_Witness ==
    /\ \E c \in DOMAIN customers : KindOf(c, GAVE) # {} /\ KindOf(c, GOT) # {}
    /\ \E c \in DOMAIN customers : KindOf(c, GAVE) = {} /\ KindOf(c, GOT) = {}

(* C3: the commit of delete_customer(c) leaves no transaction of customer  *)
(* c in the store, and every transaction id that belonged to c is gone.    *)
C3_DeleteCustomerRemovesTransactions ==
    [][(pending.pc = "customers_deleted" /\ pending'.pc = "committed") =>
          /\ \A t \in DOMAIN transactions' :
                transactions'[t].customer_id # pending.customer_id
          /\ \A t \in DOMAIN transactions :
                transactions[t].customer_id = pending.customer_id =>
                    t \notin DOMAIN transactions']_vars

(* delete_customer(c) has committed, c had two transactions or more and a  *)
(* transaction of another customer is still there                          *)
C3_Witness ==
    /\ pending.pc = "committed"
    /\ Cardinality(pending.del_transactions) >= 2
    /\ pending.del_customers # {}
    /\ DOMAIN transactions \cap pending.del_transactions = {}

(* C4: every step of a delete_customer(c) in flight, its failure included, *)
(* either leaves the customers and the transactions in the file as they    *)
(* were, or removes customer c and all of its transactions together.       *)
C4_DeleteCustomerAtomic ==
    [][\A c \in AllCustIds :
          ((pending.customer_id = c \/ pending'.customer_id = c) /\ pending'.pc # pending.pc) =>
              \/ UNCHANGED <<customers, transactions>>
              \/ /\ c \notin DOMAIN customers'
                 /\ \A t \in DOMAIN transactions' : transactions'[t].customer_id # c]_vars

(* both DELETE statements have run and nothing is committed: the customer  *)
(* and its transactions are still in the file                              *)
C4_Witness ==
    /\ pending.pc = "customers_deleted"
    /\ pending.del_customers # {}
    /\ pending.del_customers \subseteq DOMAIN customers
    /\ pending.del_transactions # {}
    /\ pending.del_transactions \subseteq DOMAIN transactions

(* C5: a transaction is only ever inserted for a customer that exists at   *)
(* the moment of the insert.                                               *)
C5_InsertReferencesExistingCustomer ==
    [][\A t \in DOMAIN transactions' \ DOMAIN transactions :
          transactions'[t].customer_id \in DOMAIN customers]_vars

(* C6: every stored transaction has a non-negative amount and a kind that  *)
(* is GAVE or GOT.                                                         *)
C6_StoredTransactionsValid ==
    \A t \in DOMAIN transactions :
        transactions[t].amount >= 0 /\ transactions[t].type \in {GAVE, GOT}

(***************************************************************************)
(* Claims about the auth gate in front of the handlers.                    *)
(***************************************************************************)
ProtectedEndpoints ==
    {"/", "/add_customer", "/customer", "/add_transaction", "/edit_transaction",
     "/delete_transaction", "/edit_customer", "/delete_customer",
     "/customer/download", "/download_db", "/restore_db"}

(* C2: a step of a protected endpoint for a request without identity       *)
(* answers with the redirect to /login, carries no body, and leaves the    *)
(* customers, the transactions, the id sequences and the open write        *)
(* transaction as they were.                                               *)
C2_NoIdentityNoEffect ==
    [][(resp'.user = None /\ resp'.endpoint \in ProtectedEndpoints) =>
          /\ resp'.status = 307
          /\ resp'.location = Loc("/login", 0)
          /\ resp'.body = NoBody
          /\ UNCHANGED <<customers, transactions, seq, pending>>]_vars

(* a restore asked without identity of a ledger that holds rows *)
C2_Witness ==
    /\ resp.endpoint = "/restore_db"
    /\ resp.user = None
    /\ resp.status = 307
    /\ DOMAIN customers # {}
    /\ DOMAIN transactions # {}

(***************************************************************************)
(* Claims about the dashboard.                                             *)
(***************************************************************************)
RECURSIVE SumPositiveBalances(_)
SumPositiveBalances(ids) ==
    IF ids = {} THEN 0
    ELSE LET c == CHOOSE x \in ids : TRUE
         IN  Max(get_customer_balance(c), 0) + SumPositiveBalances(ids \ {c})

(* C7: the total_to_collect of every dashboard response is the sum of      *)
(* max(balance(c), 0) over all the customers of the ledger.                *)
C7_TotalOverAllCustomers ==
    (resp.endpoint = "/" /\ resp.status = 200) =>
        resp.body.total_to_collect = SumPositiveBalances(DOMAIN customers)

(***************************************************************************)
(* Claims about tokens and the auth gate.                                  *)
(***************************************************************************)
HasToken(cookie) == Len(cookie) = 2 /\ cookie[2].kind = "jwt"

ValidSignature(tok) == tok.sig = Sign(SECRET_KEY, ALGORITHM, tok.sub, tok.exp)

Asked == resp.endpoint = "get_current_user"

(* C8: a request that carries a token issued for a user who is not in      *)
(* users_db any more gets no identity.                                     *)
C8_RemovedUserRejected ==
    Asked =>
        LET cookie == resp.body.cookie
        IN  (/\ HasToken(cookie)
             /\ cookie[2] \in IssuedTokens
             /\ cookie[2].sub[1] \notin DOMAIN users_db) => resp.user = None

(* an issued token, rightly signed and not expired, sent as a Bearer       *)
(* cookie while its user is out of users_db, and refused                   *)
C8_Witness ==
    /\ Asked
    /\ HasToken(resp.body.cookie)
    /\ resp.body.cookie[1] = Text("Bearer")
    /\ resp.body.cookie[2] \in IssuedTokens
    /\ ValidSignature(resp.body.cookie[2])
    /\ resp.body.cookie[2].exp[1] > resp.body.at
    /\ resp.body.cookie[2].sub[1] \notin DOMAIN users_db
    /\ resp.user = None

(* C9: a token whose signature is not the server's signature of its        *)
(* payload gets no identity, and an identity is only given for a token     *)
(* that create_access_token returned.                                      *)
C9_WrongSignatureRejected ==
    Asked =>
        LET cookie == resp.body.cookie
        IN  /\ (HasToken(cookie) /\ ~ValidSignature(cookie[2])) => resp.user = None
            /\ resp.user # None => (HasToken(cookie) /\ cookie[2] \in IssuedTokens)

(* the payload of an issued token changed to a later expiry under its old  *)
(* signature, for a user who is in users_db, and refused                   *)
C9_Witness ==
    /\ Asked
    /\ HasToken(resp.body.cookie)
    /\ ~ValidSignature(resp.body.cookie[2])
    /\ resp.body.cookie[2].sig \in {tok.sig : tok \in IssuedTokens}
    /\ resp.body.cookie[2].sub = <<ADMIN>>
    /\ resp.body.cookie[2].exp # <<>>
    /\ resp.body.cookie[2].exp[1] > resp.body.at
    /\ ADMIN \in DOMAIN users_db
    /\ resp.user = None

IssuedForSevenDays ==
    \A i \in issued : i.token.exp = <<i.at + 7>> /\ i.token.sub # <<>>

(* a cookie that is malformed, wrongly signed, or expired at the request *)
Refusable(cookie, at) ==
    \/ ~HasToken(cookie)
    \/ ~ValidSignature(cookie[2])
    \/ cookie[2].exp # <<>> /\ cookie[2].exp[1] < at

(* C10 as stated: a token issued at t expires at t + 7 days and gives an   *)
(* identity only while now < expires_at; a malformed, wrongly signed or    *)
(* expired cookie gives no identity, and never an error.                   *)
C10_AcceptedOnlyBeforeExpiry ==
    /\ IssuedForSevenDays
    /\ Asked =>
        /\ resp.user \in Usernames \cup {None}
        /\ Refusable(resp.body.cookie, resp.body.at) => resp.user = None
        /\ resp.user # None => resp.body.at < resp.body.cookie[2].exp[1]

(* C10 amended: as above, with the identity given while now <= expires_at. *)
C10_AcceptedUntilExpiry ==
    /\ IssuedForSevenDays
    /\ Asked =>
        /\ resp.user \in Usernames \cup {None}
        /\ Refusable(resp.body.cookie, resp.body.at) => resp.user = None
        /\ resp.user # None => resp.body.at <= resp.body.cookie[2].exp[1]

(* an issued token sent the day after its expiry, and refused *)
C10_Witness ==
    /\ Asked
    /\ HasToken(resp.body.cookie)
    /\ resp.body.cookie[2] \in IssuedTokens
    /\ resp.body.cookie[2].sub[1] \in DOMAIN users_db
    /\ resp.body.at = resp.body.cookie[2].exp[1] + 1
    /\ resp.user = None

(***************************************************************************)
(* Claims about restarts and logins.                                       *)
(***************************************************************************)

(* C11: no session survives a process restart: when a process has started *)
(* (startup_event has filled the users_db that the import left empty),     *)
(* every token issued before that start by an earlier process fails        *)
(* verification and gives no identity.                                     *)
C11_NoSessionSurvivesRestart ==
    [][(users_db = <<>> /\ users_db' # <<>>) =>
          \A i \in issued :
              get_current_user_in(Bearer(i.token), users_db', now') = None]_vars

(***************************************************************************)
(* The login specification: login attempts with right and wrong            *)
(* credentials, restarts, the clock, and the dashboard asked without a     *)
(* cookie and with the cookies the logins have set.                        *)
(***************************************************************************)
LoginCookies == {NoCookie} \cup {Bearer(tok) : tok \in IssuedTokens}

NextLogin ==
    \/ startup_event
    \/ Restart
    \/ \E username \in Usernames, password \in Passwords : login(username, password)
    \/ \E cookie \in LoginCookies, q \in GateQueries, sort \in GateSorts :
            dashboard(cookie, q, sort)
    \/ AuthTick

SpecLogin == InitAuth /\ [][NextLogin]_vars

(* the credentials are those of a user of the dictionary *)
CorrectCredentials(username, password) ==
    /\ username \in DOMAIN users_db
    /\ users_db[username] = get_password_hash(password)

(* the response in resp is a successful login of this very day *)
JustLoggedIn ==
    /\ resp.endpoint = "/login"
    /\ resp.status = 302
    /\ [token |-> resp.body.set_cookie[2], at |-> now] \in issued

(* C12: a login attempt with an unknown username or a wrong password       *)
(* answers the login page, sets no cookie and changes nothing (so it has   *)
(* no effect on later attempts); an attempt with correct credentials,      *)
(* after any attempts before it, redirects to / and sets a cookie that     *)
(* get_current_user accepts for that user; and the GET / that follows a    *)
(* successful login with the cookie it set is served, not redirected.      *)
C12_LoginSetsAcceptedCookie ==
    [][/\ \A u \in Usernames, p \in Passwords :
            login(u, p) =>
                IF CorrectCredentials(u, p)
                THEN /\ resp'.status = 302
                     /\ resp'.location = Loc("/", 0)
                     /\ resp'.body.set_cookie # NoCookie
                     /\ resp'.body.set_cookie[1] = Text("Bearer")
                     /\ get_current_user_in(resp'.body.set_cookie, users_db', now') = u
                ELSE /\ resp'.status = 200
                     /\ resp'.user = None
                     /\ resp'.body.set_cookie = NoCookie
                     /\ UNCHANGED <<ledger, pending, users_db, now, issued, reader>>
       /\ (JustLoggedIn /\ \E q \in GateQueries, sort \in GateSorts :
                               dashboard(resp.body.set_cookie, q, sort)) =>
              /\ resp'.endpoint = "/"
              /\ resp'.status = 200
              /\ resp'.user = resp.user
              /\ resp'.body.kind = "index"]_vars

(* the dashboard served to admin on a later day than the first login, two  *)
(* logins having succeeded                                                 *)
C12_Witness ==
    /\ resp.endpoint = "/"
    /\ resp.status = 200
    /\ resp.user = ADMIN
    /\ Cardinality(issued) = 2
    /\ \E i \in issued : i.at = now

(***************************************************************************)
(* view_customer and download_statement in steps.  The handler suspends at *)
(* every await; no transaction spans its SELECT statements, and            *)
(* get_customer_balance runs its two SELECTs on a connection of its own:   *)
(* other requests run, and commit, between any two of the four statements. *)
(* One such request is in flight at a time.  reader.called_on keeps the    *)
(* transactions table as it was when get_customer_balance was called.      *)
(***************************************************************************)

(* the auth check and  SELECT * FROM customers WHERE id = ? *)
ReadBegin(endpoint, cookie, customer_id) ==
    LET user == get_current_user(cookie)
    IN  /\ reader.pc = "idle"
        /\ IF user = None
           THEN /\ resp' = LoginRedirect(endpoint, customer_id)
                /\ UNCHANGED reader
           ELSE IF customer_id \notin DOMAIN customers
           THEN /\ resp' = Response(endpoint, user, 404, NoLoc, customer_id, NoBody)
                /\ UNCHANGED reader
           ELSE /\ reader' = [NoRead EXCEPT !.pc = "customer_read",
                                            !.endpoint = endpoint,
                                            !.user = user,
                                            !.customer_id = customer_id,
                                            !.customer = <<customers[customer_id]>>]
                /\ UNCHANGED resp
        /\ UNCHANGED <<ledger, pending, users_db, now, issued>>

(* GET /customer/{customer_id}, up to its first SELECT *)
view_customer_begin(cookie, customer_id) == ReadBegin("/customer", cookie, customer_id)

(* GET /customer/{customer_id}/download, up to its first SELECT *)
download_statement_begin(cookie, customer_id) ==
    ReadBegin("/customer/download", cookie, customer_id)

(* SELECT * FROM transactions WHERE customer_id = ? ORDER BY date DESC,    *)
(* fetchall, and the call of get_customer_balance                          *)
select_transactions ==
    /\ reader.pc = "customer_read"
    /\ reader' = [reader EXCEPT !.pc = "transactions_read",
                                !.transactions = TransactionsByDateDesc(reader.customer_id),
                                !.called_on = transactions]
    /\ UNCHANGED <<ledger, pending, users_db, now, issued, resp>>

(* get_customer_balance: SELECT SUM(amount) ... AND type = 'GAVE' *)
select_sum_gave ==
    /\ reader.pc = "transactions_read"
    /\ reader' = [reader EXCEPT !.pc = "gave_read",
                                !.gave = OrZero(SqlSum(RowsOfType(reader.customer_id, GAVE)))]
    /\ UNCHANGED <<ledger, pending, users_db, now, issued, resp>>

(* get_customer_balance: SELECT SUM(amount) ... AND type = 'GOT', the      *)
(* return of gave - got, and the response built from what was read         *)
select_sum_got ==
    /\ reader.pc = "gave_read"
    /\ LET got == OrZero(SqlSum(RowsOfType(reader.customer_id, GOT)))
           balance == reader.gave - got
       IN  resp' = Response(reader.endpoint, reader.user, 200, NoLoc, reader.customer_id,
                      IF reader.endpoint = "/customer"
                      THEN [kind |-> "customer",
                            customer |-> reader.customer[1],
                            transactions |-> reader.transactions,
                            balance |-> balance]
                      ELSE [kind |-> "csv",
                            filename |-> reader.customer[1].name,
                            rows |-> StatementRows(reader.transactions),
                            net_balance |-> balance])
    /\ reader' = NoRead
    /\ UNCHANGED <<ledger, pending, users_db, now, issued>>

(***************************************************************************)
(* The race specification: a view or a statement request in steps, with    *)
(* transaction creates, edits and deletes between its steps.               *)
(***************************************************************************)
RaceAmounts == {1, 2}

NextRace ==
    \/ \E name \in Names, phone \in Phones : add_customer(GoodCookie, name, phone)
    \/ \E c \in CustIds, a \in RaceAmounts, ty \in DashTypes, d \in Descriptions :
            add_transaction(GoodCookie, c, a, ty, d)
    \/ \E t \in TransIds, c \in CustIds, a \in RaceAmounts,
          d \in Descriptions, ty \in DashTypes :
            edit_transaction(GoodCookie, t, c, a, d, ty)
    \/ \E t \in TransIds : delete_transaction(GoodCookie, t)
    \/ \E cookie \in Cookies, c \in CustIds : view_customer_begin(cookie, c)
    \/ \E cookie \in Cookies, c \in CustIds : download_statement_begin(cookie, c)
    \/ select_transactions
    \/ select_sum_gave
    \/ select_sum_got

SpecRace == Init /\ [][NextRace]_vars

(***************************************************************************)
(* Claims about reads that run among writes.                               *)
(***************************************************************************)
RECURSIVE SumIn(_, _)
SumIn(table, rows) ==
    IF rows = {} THEN 0
    ELSE LET t == CHOOSE r \in rows : TRUE
         IN  table[t].amount + SumIn(table, rows \ {t})

(* the balance of customer c in a transactions table *)
BalanceIn(table, c) ==
    SumIn(table, {t \in DOMAIN table : table[t].customer_id = c /\ table[t].type = GAVE})
    - SumIn(table, {t \in DOMAIN table : table[t].customer_id = c /\ table[t].type = GOT})

(* the rows that one table has and the other has not, or has differently *)
RowsChanged(old, new) ==
    {t \in DOMAIN old \cup DOMAIN new :
        \/ t \notin DOMAIN old
        \/ t \notin DOMAIN new
        \/ old[t] # new[t]}

(* the balance a view or a statement response reports *)
ReportedBalance(r) ==
    IF r.body.kind = "customer" THEN r.body.balance ELSE r.body.net_balance

(* the rows a view or a statement response shows *)
ShownRows(r) ==
    IF r.body.kind = "customer" THEN r.body.transactions ELSE r.body.rows

(* C13: when get_customer_balance returns and at most one transaction row  *)
(* was created, updated or deleted since it was called, the balance it     *)
(* returns is the customer's balance as it was at the call or as it is at  *)
(* the return.                                                             *)
C13_BalanceBeforeOrAfter ==
    [][(/\ reader.pc = "gave_read"
        /\ reader'.pc = "idle"
        /\ Cardinality(RowsChanged(reader.called_on, transactions)) <= 1) =>
          ReportedBalance(resp') \in
              {BalanceIn(reader.called_on, reader.customer_id),
               BalanceIn(transactions, reader.customer_id)}]_vars

RECURSIVE NetOfRows(_)
NetOfRows(rows) ==
    IF rows = <<>> THEN 0
    ELSE (IF Head(rows).type = GAVE THEN Head(rows).amount
          ELSE IF Head(rows).type = GOT THEN 0 - Head(rows).amount
          ELSE 0) + NetOfRows(Tail(rows))

(* C20: the net balance of every view and every statement response is the  *)
(* sum of the GAVE amounts minus the sum of the GOT amounts of the rows    *)
(* that response shows.                                                    *)
C20_BalanceMatchesRowsShown ==
    (resp.endpoint \in {"/customer", "/customer/download"} /\ resp.status = 200) =>
        ReportedBalance(resp) = NetOfRows(ShownRows(resp))

(***************************************************************************)
(* The rows specification: one session that adds, edits and deletes        *)
(* transactions over the days and asks for the detail view and for the     *)
(* statement, one request at a time.                                       *)
(***************************************************************************)
RowDescriptions == {"", "rent"}

NextRows ==
    \/ \E name \in Names, phone \in Phones : add_customer(GoodCookie, name, phone)
    \/ \E c \in CustIds, a \in DashAmounts, ty \in DashTypes, d \in RowDescriptions :
            add_transaction(GoodCookie, c, a, ty, d)
    \/ \E t \in TransIds, c \in CustIds, a \in DashAmounts,
          d \in RowDescriptions, ty \in DashTypes :
            edit_transaction(GoodCookie, t, c, a, d, ty)
    \/ \E t \in TransIds : delete_transaction(GoodCookie, t)
    \/ \E c \in CustIds : view_customer(GoodCookie, c)
    \/ \E c \in CustIds : download_statement(GoodCookie, c)
    \/ Tick

SpecRows == Init /\ [][NextRows]_vars

(***************************************************************************)
(* Claims about the statement, the edit and the delete of a transaction.   *)
(***************************************************************************)

(* C14: the statement of a customer with N transactions has N detail rows  *)
(* and, as its summary, the customer's net balance; every detail row is a  *)
(* transaction of that customer; the rows are in descending date order,    *)
(* row by row the order in which the detail view lists the transactions.   *)
C14_StatementRowsAndSummary ==
    (resp.endpoint = "/customer/download" /\ resp.status = 200) =>
        LET rows == resp.body.rows
            c == resp.arg
            listed == TransactionsByDateDesc(c)
        IN  /\ Len(rows) = Cardinality(RowsOf(c))
            /\ resp.body.net_balance = BalanceIn(transactions, c)
            /\ \A k \in 1..(Len(rows) - 1) : rows[k].date >= rows[k + 1].date
            /\ \A k \in 1..Len(rows) :
                  \E t \in RowsOf(c) :
                      /\ rows[k].date = transactions[t].date
                      /\ rows[k].amount = transactions[t].amount
                      /\ rows[k].type = transactions[t].type
                      /\ rows[k].description = transactions[t].description
            /\ Len(listed) = Len(rows)
            /\ \A k \in 1..Len(rows) :
                  /\ rows[k].date = listed[k].date
                  /\ rows[k].amount = listed[k].amount
                  /\ rows[k].type = listed[k].type
                  /\ rows[k].description = listed[k].description

(* a statement of two transactions of different days and kinds, the later  *)
(* one first, with a net balance that is not zero                          *)
C14_Witness ==
    /\ resp.endpoint = "/customer/download"
    /\ resp.status = 200
    /\ Len(resp.body.rows) = 2
    /\ resp.body.rows[1].date > resp.body.rows[2].date
    /\ resp.body.rows[1].type # resp.body.rows[2].type
    /\ resp.body.net_balance # 0

(* C16: an edit_transaction request for transaction_id t sets the amount,  *)
(* the kind and the description of row t and nothing else: the row keeps   *)
(* its customer_id and its date, the set of transaction ids, every other   *)
(* row, the customers and the id sequences are as before, whatever the     *)
(* customer_id form field; that field is the redirect target.  The step   *)
(* is an edit request with the transaction_id and the customer_id that its *)
(* response carries.                                                       *)
C16_EditChangesOnlyAmountKindDescription ==
    [][(/\ resp'.endpoint = "/edit_transaction"
        /\ resp'.status = 303
        /\ \E a \in DashAmounts, d \in RowDescriptions, ty \in DashTypes :
              edit_transaction(GoodCookie, resp'.arg, resp'.location.id, a, d, ty)) =>
          LET t == resp'.arg
              c == resp'.location.id
          IN  /\ resp'.location.path = "/customer"
              /\ customers' = customers
              /\ seq' = seq
              /\ DOMAIN transactions' = DOMAIN transactions
              /\ \A o \in DOMAIN transactions :
                    o # t => transactions'[o] = transactions[o]
              /\ t \in DOMAIN transactions =>
                    /\ transactions'[t].customer_id = transactions[t].customer_id
                    /\ transactions'[t].date = transactions[t].date
              /\ \A a \in DashAmounts, d \in RowDescriptions, ty \in DashTypes :
                    (edit_transaction(GoodCookie, t, c, a, d, ty)
                        /\ t \in DOMAIN transactions) =>
                        /\ transactions'[t].amount = a
                        /\ transactions'[t].type = ty
                        /\ transactions'[t].description = d]_vars

(* an edit, on a later day than the insert, of one of two transactions,    *)
(* sent with the customer_id of another customer than the owner            *)
C16_Witness ==
    /\ resp.endpoint = "/edit_transaction"
    /\ resp.status = 303
    /\ resp.arg \in DOMAIN transactions
    /\ resp.location.id # transactions[resp.arg].customer_id
    /\ transactions[resp.arg].date < now
    /\ transactions[resp.arg].description = "rent"
    /\ \E o \in DOMAIN transactions : o # resp.arg /\ transactions[o].description = ""

(* C17: delete_transaction(t) for a t in the store removes row t, leaves   *)
(* every other row, the customers and the id sequences as they were, and   *)
(* redirects to the view of the customer_id stored in row t.               *)
C17_DeleteRemovesExactlyOne ==
    [][\A t \in TransIds :
          (t \in DOMAIN transactions /\ delete_transaction(GoodCookie, t)) =>
              /\ DOMAIN transactions' = DOMAIN transactions \ {t}
              /\ \A o \in DOMAIN transactions' : transactions'[o] = transactions[o]
              /\ customers' = customers
              /\ seq' = seq
              /\ resp'.status = 303
              /\ resp'.location = Loc("/customer", transactions[t].customer_id)]_vars

(* a transaction deleted, another transaction of the same owner still in   *)
(* the store, and the redirect to that owner's view                        *)
C17_Witness ==
    /\ resp.endpoint = "/delete_transaction"
    /\ resp.status = 303
    /\ resp.location.path = "/customer"
    /\ resp.arg \notin DOMAIN transactions
    /\ resp.arg <= seq.transactions
    /\ RowsOf(resp.location.id) # {}

(***************************************************************************)
(* Claims about unknown ids.                                               *)
(***************************************************************************)

(* the step answers an authenticated request that names an id that is not  *)
(* in the store (for delete_customer: its DELETE found no customer)        *)
NamesUnknownId ==
    /\ resp'.user # None
    /\ resp'.status \notin {0, 500}
    /\ \/ /\ resp'.endpoint \in {"/customer", "/customer/download", "/edit_customer"}
          /\ resp'.arg \notin DOMAIN customers
       \/ /\ resp'.endpoint \in {"/edit_transaction", "/delete_transaction"}
          /\ resp'.arg \notin DOMAIN transactions
       \/ /\ resp'.endpoint = "/delete_customer"
          /\ pending.pc = "committed"
          /\ pending.del_customers = {}

(* C15: every authenticated request that names a customer id or a          *)
(* transaction id that does not exist is answered with 404 and leaves the  *)
(* customers, the transactions and the id sequences as they were.          *)
C15_UnknownIdIsNotFound ==
    [][NamesUnknownId => (resp'.status = 404 /\ UNCHANGED ledger)]_vars

(***************************************************************************)
(* Claims about the order of the dashboard list.                           *)
(***************************************************************************)

(* the latest date among the transactions of c, the epoch when it has none *)
MaxDateOf(c) ==
    LET dates == {transactions[t].date : t \in RowsOf(c)}
    IN  IF dates = {} THEN EPOCH
        ELSE CHOOSE d \in dates : \A e \in dates : d >= e

(* C18: the list of every dashboard response holds each customer that      *)
(* matched the filter exactly once, with its balance and with its last     *)
(* activity (the latest date of its transactions, the epoch sentinel when  *)
(* it has none), and is ordered by the requested sort: bal_high by         *)
(* non-increasing balance, bal_low by non-decreasing balance, date_desc by *)
(* non-increasing and date_asc by non-decreasing last activity.            *)
C18_DashboardOrdered ==
    (resp.endpoint = "/" /\ resp.status = 200) =>
        LET list == resp.body.customers
            sort == resp.body.sort
            Pairs == 1..(Len(list) - 1)
        IN  /\ Len(list) = Cardinality(SelectCustomers(resp.body.q))
            /\ {list[k].id : k \in 1..Len(list)} = SelectCustomers(resp.body.q)
            /\ \A k \in 1..Len(list) :
                  /\ list[k].balance = BalanceIn(transactions, list[k].id)
                  /\ list[k].last_activity = MaxDateOf(list[k].id)
                  /\ list[k].name = customers[list[k].id].name
            /\ sort = "bal_high" => \A k \in Pairs : list[k].balance >= list[k + 1].balance
            /\ sort = "bal_low" => \A k \in Pairs : list[k].balance <= list[k + 1].balance
            /\ sort = "date_desc" =>
                  \A k \in Pairs : list[k].last_activity >= list[k + 1].last_activity
            /\ sort = "date_asc" =>
                  \A k \in Pairs : list[k].last_activity <= list[k + 1].last_activity

(* a date_desc list of two customers in which the second customer created  *)
(* comes first: it has a transaction, the first one has none and carries   *)
(* the epoch sentinel                                                      *)
C18_Witness ==
    /\ resp.endpoint = "/"
    /\ resp.status = 200
    /\ resp.body.sort = "date_desc"
    /\ Len(resp.body.customers) = 2
    /\ resp.body.customers[1].id > resp.body.customers[2].id
    /\ resp.body.customers[1].last_activity > EPOCH
    /\ resp.body.customers[2].last_activity = EPOCH

(***************************************************************************)
(* Claims about new customers.                                             *)
(***************************************************************************)

(* C19: a customer that add_customer has just created has no transaction   *)
(* and the balance 0: no transaction in the store carries the id that the  *)
(* new customer is given.                                                  *)
C19_NewCustomerHasNoTransactions ==
    [][\A c \in DOMAIN customers' \ DOMAIN customers :
          /\ \A t \in DOMAIN transactions' : transactions'[t].customer_id # c
          /\ BalanceIn(transactions', c) = 0]_vars

====
